---------------------------- MODULE Spec2Model ----------------------------
(***************************************************************************)
(* A model of go-ndn's schema Tree (pkg/schema: Attach, Detach, Match,     *)
(* intHandler, At, PutNode, RLock/RUnlock) and of encoding.Wire.Join.      *)
(*                                                                         *)
(* The specifications of the module:                                       *)
(*   Spec         the Tree driven by concurrent callers and an engine      *)
(*   LiveSpec     Spec on a one-node tree, with fairness                   *)
(*   TreeSpec     the Tree's structural operations, one call at a time     *)
(*   HandlerSpec  intHandler on one Interest at a time                     *)
(*   WireSpec     Wire.Join over a byte heap                               *)
(*   ReaderSpec   ParseReader.Range and Skip over the same Wire            *)
(***************************************************************************)
EXTENDS Integers, Sequences, FiniteSets, TLC

VARIABLES
    Root,            \* Tree.Root: a node id, or NoNode
    nodes,           \* the node objects: id -> [kind, chd]
    Engine,          \* Tree.Engine: an engine, or Nil
    attachedPrefix,  \* the root's attached prefix (a Name; the nil Name is <<>>)
    handlers,        \* the engine's prefix-handler table: the registered prefixes
    writer,          \* Tree.lock: the set (of at most one) thread holding it exclusively
    readers,         \* Tree.lock: the threads holding it shared
    pc,              \* per thread: the position inside the call it is running
    arg,             \* per thread: the arguments and locals of that call
    hooks,           \* per node: hook invocations observed (OnAttach, OnDetach)
    obs,             \* observations of the run the claims speak about
    last,            \* TreeSpec: the last completed structural call
    heap,            \* WireSpec: the byte arrays behind the Buffers
    wire,            \* WireSpec: the Wire, a sequence of Buffers (slices of heap)
    joined,          \* WireSpec: the slice Join returned, or Nil
    snap,            \* WireSpec: the bytes of joined when Join returned
    rpos,            \* WireSpec: the ParseReader's cursor
    wlast            \* WireSpec: the last completed reader call

treeVars == <<Root, nodes, Engine, attachedPrefix>>
lockVars == <<writer, readers>>
procVars == <<pc, arg>>
wireVars == <<heap, wire, joined, snap, rpos, wlast>>
vars == <<Root, nodes, Engine, attachedPrefix, handlers, writer, readers,
          pc, arg, hooks, obs, last, heap, wire, joined, snap, rpos, wlast>>

Nil == "nil"

\* A nil NTNode (node ids start at 1).
NoNode == 0

-----------------------------------------------------------------------------
(* Names, components and patterns                                          *)

Comp(typ, val) == [typ |-> typ, val |-> val]

\* A pattern element: a literal component, or a variable slot with a tag and
\* an optional type constraint ("any": none).
Lit(c) == [lit |-> TRUE, typ |-> c.typ, val |-> c.val]
Var(tag, typ) == [lit |-> FALSE, typ |-> typ, val |-> tag]

\* Whether pattern element e accepts component c.
EdgeMatches(e, c) ==
    IF e.lit THEN e.typ = c.typ /\ e.val = c.val
    ELSE e.typ = "any" \/ e.typ = c.typ

IsPrefix(p, n) == Len(p) <= Len(n) /\ SubSeq(n, 1, Len(p)) = p

Bind(m, tag, val) == [x \in DOMAIN m \cup {tag} |-> IF x = tag THEN val ELSE m[x]]

EmptyMatching == [x \in {} |-> Nil]

-----------------------------------------------------------------------------
(* NTNode operations                                                        *)

NewNode(kind) == [kind |-> kind, chd |-> <<>>]

\* The index in n's child list of the child under edge e, 0 when there is none.
ChildIndex(ns, n, e) ==
    LET idx == {i \in 1..Len(ns[n].chd) : ns[n].chd[i].edge = e}
    IN IF idx = {} THEN 0 ELSE CHOOSE i \in idx : TRUE

RECURSIVE NodeAt(_, _, _)
NodeAt(ns, n, path) ==
    IF path = <<>> THEN n
    ELSE LET i == ChildIndex(ns, n, Head(path))
         IN IF i = 0 THEN NoNode ELSE NodeAt(ns, ns[n].chd[i].node, Tail(path))

AddChild(ns, n, e, kind) ==
    LET id == Len(ns) + 1
    IN [Append(ns, NewNode(kind)) EXCEPT
           ![n].chd = Append(@, [edge |-> e, node |-> id])]

\* BaseNode.PutNode: install a node of `kind` at `path` below n, creating
\* BaseNode placeholders for the missing intermediates.
RECURSIVE NodePutNode(_, _, _, _)
NodePutNode(ns, n, path, kind) ==
    IF path = <<>> THEN [err |-> "exists", nodes |-> ns, node |-> NoNode]
    ELSE LET i == ChildIndex(ns, n, Head(path))
         IN IF Len(path) = 1
            THEN IF i # 0
                 THEN [err |-> "exists", nodes |-> ns, node |-> NoNode]
                 ELSE [err |-> Nil, nodes |-> AddChild(ns, n, Head(path), kind),
                       node |-> Len(ns) + 1]
            ELSE IF i # 0
                 THEN NodePutNode(ns, ns[n].chd[i].node, Tail(path), kind)
                 ELSE NodePutNode(AddChild(ns, n, Head(path), "BaseNode"),
                                  Len(ns) + 1, Tail(path), kind)

\* A Match that tries the children in insertion order, whatever their kind.
MatchOrderInsertion(ns, n, c) ==
    SelectSeq(ns[n].chd, LAMBDA x : EdgeMatches(x.edge, c))

\* The children of n in the order Match tries them for component c: the
\* literal children first, then the variable slots in insertion order.
MatchOrder(ns, n, c) ==
    LET all == ns[n].chd
        lits == SelectSeq(all, LAMBDA x : x.edge.lit)
        vs == SelectSeq(all, LAMBDA x : ~x.edge.lit)
    IN SelectSeq(lits \o vs, LAMBDA x : EdgeMatches(x.edge, c))

RECURSIVE NodeContinueMatch(_, _, _, _)
NodeContinueMatch(ns, n, name, m) ==
    IF name = <<>> THEN [node |-> n, matching |-> m]
    ELSE LET cand == MatchOrder(ns, n, Head(name))
         IN IF cand = <<>> THEN [node |-> NoNode, matching |-> EmptyMatching]
            ELSE LET x == Head(cand)
                     m2 == IF x.edge.lit THEN m
                           ELSE Bind(m, x.edge.val, Head(name).val)
                 IN NodeContinueMatch(ns, x.node, Tail(name), m2)

\* BaseNode.Match on the root: the name carries the attached prefix, which is
\* skipped before the edges are walked.
NodeMatch(ns, n, prefix, name) ==
    IF ~IsPrefix(prefix, name) THEN [node |-> NoNode, matching |-> EmptyMatching]
    ELSE NodeContinueMatch(ns, n, SubSeq(name, Len(prefix) + 1, Len(name)),
                           EmptyMatching)

-----------------------------------------------------------------------------
(* Tree: the structural operations                                          *)

\* A call on a nil Root is a nil-interface method call: it panics.
TreeMatch(root, ns, prefix, name) ==
    IF root = NoNode
    THEN [err |-> "panic", node |-> NoNode, matching |-> EmptyMatching]
    ELSE LET r == NodeMatch(ns, root, prefix, name)
         IN [err |-> Nil, node |-> r.node, matching |-> r.matching]

TreeAt(root, ns, path) ==
    IF root = NoNode THEN [err |-> "panic", node |-> NoNode]
    ELSE [err |-> Nil, node |-> NodeAt(ns, root, path)]

\* A PutNode whose empty-path branch installs the node over an existing root.
TreePutNodeOverRoot(root, ns, path, kind) ==
    IF Len(path) = 0
    THEN [err |-> Nil, root |-> Len(ns) + 1,
          nodes |-> Append(ns, NewNode(kind)), node |-> Len(ns) + 1]
    ELSE LET ns1 == IF root = NoNode THEN Append(ns, NewNode("BaseNode")) ELSE ns
             r1 == IF root = NoNode THEN Len(ns) + 1 ELSE root
             r == NodePutNode(ns1, r1, path, kind)
         IN [err |-> r.err, root |-> r1, nodes |-> r.nodes, node |-> r.node]

\* A PutNode that, on a tree without a root, makes the node the root whatever
\* the path is (no placeholder root, no descent).
TreePutNodeNoPlaceholder(root, ns, path, kind) ==
    IF root = NoNode
    THEN [err |-> Nil, root |-> Len(ns) + 1,
          nodes |-> Append(ns, NewNode(kind)), node |-> Len(ns) + 1]
    ELSE IF Len(path) = 0
         THEN [err |-> "exists", root |-> root, nodes |-> ns, node |-> NoNode]
         ELSE LET r == NodePutNode(ns, root, path, kind)
              IN [err |-> r.err, root |-> root, nodes |-> r.nodes, node |-> r.node]

TreePutNode(root, ns, path, kind) ==
    IF Len(path) = 0
    THEN IF root = NoNode
         THEN [err |-> Nil, root |-> Len(ns) + 1,
               nodes |-> Append(ns, NewNode(kind)), node |-> Len(ns) + 1]
         ELSE [err |-> "exists", root |-> root, nodes |-> ns, node |-> NoNode]
    ELSE LET ns1 == IF root = NoNode THEN Append(ns, NewNode("BaseNode")) ELSE ns
             r1 == IF root = NoNode THEN Len(ns) + 1 ELSE root
             r == NodePutNode(ns1, r1, path, kind)
         IN [err |-> r.err, root |-> r1, nodes |-> r.nodes, node |-> r.node]

-----------------------------------------------------------------------------
(* encoding.Buffer and encoding.Wire                                        *)
(* A Buffer is a Go slice: a window [off, off+len) of a byte array of the   *)
(* heap (base; 0 for a nil slice). A Wire is a sequence of Buffers.         *)

Slice(base, off, len) == [set |-> TRUE, base |-> base, off |-> off, len |-> len]

SliceBytes(h, s) ==
    IF s.len = 0 THEN <<>> ELSE SubSeq(h[s.base], s.off + 1, s.off + s.len)

Min(a, b) == IF a <= b THEN a ELSE b

\* make([]byte, n): n zero bytes.
MakeBytes(n) == [k \in 1..n |-> 0]

\* copy(b[bp:], v): the bytes of b after the copy, and the number copied.
CopyAt(b, bp, v) ==
    LET n == Min(Len(b) - bp, Len(v))
    IN [bytes |-> [k \in 1..Len(b) |-> IF k > bp /\ k <= bp + n THEN v[k - bp] ELSE b[k]],
        n |-> n]

RECURSIVE SumLen(_)
SumLen(w) == IF w = <<>> THEN 0 ELSE Head(w).len + SumLen(Tail(w))

\* The loop of Join over w[1:]: bp += copy(b[bp:], v).
RECURSIVE JoinLoop(_, _, _, _)
JoinLoop(h, b, bp, rest) ==
    IF rest = <<>> THEN b
    ELSE LET c == CopyAt(b, bp, SliceBytes(h, Head(rest)))
         IN JoinLoop(h, c.bytes, bp + c.n, Tail(rest))

\* A Join whose loop runs over all of w after the first copy (w[0] twice).
WireJoinFromZero(h, w, fresh) ==
    IF Len(w) = 0
    THEN [slice |-> Slice(fresh, 0, 0), bytes |-> <<>>, alloc |-> TRUE]
    ELSE IF Len(w) = 1
    THEN [slice |-> w[1], bytes |-> SliceBytes(h, w[1]), alloc |-> FALSE]
    ELSE LET n == SumLen(w)
             c == CopyAt(MakeBytes(n), 0, SliceBytes(h, w[1]))
             b == JoinLoop(h, c.bytes, c.n, w)
         IN [slice |-> Slice(fresh, 0, n), bytes |-> b, alloc |-> TRUE]

\* A Join with one more shortcut: when every Buffer after the first is empty
\* it returns the first Buffer itself.
WireJoinShortcut(h, w, fresh) ==
    IF Len(w) = 0
    THEN [slice |-> Slice(fresh, 0, 0), bytes |-> <<>>, alloc |-> TRUE]
    ELSE IF Len(w) = 1 \/ SumLen(w) = w[1].len
    THEN [slice |-> w[1], bytes |-> SliceBytes(h, w[1]), alloc |-> FALSE]
    ELSE LET n == SumLen(w)
             c == CopyAt(MakeBytes(n), 0, SliceBytes(h, w[1]))
             b == JoinLoop(h, c.bytes, c.n, Tail(w))
         IN [slice |-> Slice(fresh, 0, n), bytes |-> b, alloc |-> TRUE]

\* A Join that places the Buffers after the first one byte early.
WireJoinOffByOne(h, w, fresh) ==
    IF Len(w) = 0
    THEN [slice |-> Slice(fresh, 0, 0), bytes |-> <<>>, alloc |-> TRUE]
    ELSE IF Len(w) = 1
    THEN [slice |-> w[1], bytes |-> SliceBytes(h, w[1]), alloc |-> FALSE]
    ELSE LET n == SumLen(w)
             c == CopyAt(MakeBytes(n), 0, SliceBytes(h, w[1]))
             b == JoinLoop(h, c.bytes, IF c.n > 0 THEN c.n - 1 ELSE 0, Tail(w))
         IN [slice |-> Slice(fresh, 0, n), bytes |-> b, alloc |-> TRUE]

\* Wire.Join: the returned slice, its bytes, and whether it is a new array
\* (then placed at heap index `fresh`).
WireJoin(h, w, fresh) ==
    IF Len(w) = 0
    THEN [slice |-> Slice(fresh, 0, 0), bytes |-> <<>>, alloc |-> TRUE]
    ELSE IF Len(w) = 1
    THEN [slice |-> w[1], bytes |-> SliceBytes(h, w[1]), alloc |-> FALSE]
    ELSE LET n == SumLen(w)
             c == CopyAt(MakeBytes(n), 0, SliceBytes(h, w[1]))
             b == JoinLoop(h, c.bytes, c.n, Tail(w))
         IN [slice |-> Slice(fresh, 0, n), bytes |-> b, alloc |-> TRUE]

\* ParseReader.Length over a Wire.
ReaderLength(w) == SumLen(w)

\* ParseReader.Range(a, b): the Buffers of w cut to the absolute offsets
\* [a, b), as windows of the same byte arrays (no copy).
RECURSIVE RangeFrom(_, _, _, _)
RangeFrom(w, start, a, b) ==
    IF w = <<>> THEN <<>>
    ELSE LET s == Head(w)
             lo == IF a > start THEN a ELSE start
             hi == Min(b, start + s.len)
             rest == RangeFrom(Tail(w), start + s.len, a, b)
         IN IF lo < hi
            THEN <<Slice(s.base, s.off + (lo - start), hi - lo)>> \o rest
            ELSE rest

WireRange(w, a, b) == RangeFrom(w, 0, a, b)

\* ParseReader.Range on a reader at cursor pos: the Wire, and the cursor after.
ReaderRange(w, pos, a, b) == [wire |-> WireRange(w, a, b), pos |-> pos]

\* ParseReader.Skip(n): BufferOverflow when it would pass Length.
ReaderSkip(w, pos, n) ==
    IF pos + n > ReaderLength(w) THEN [err |-> "BufferOverflow", pos |-> pos]
    ELSE [err |-> Nil, pos |-> pos + n]

-----------------------------------------------------------------------------
(* Bounds and input sets                                                    *)

MaxNodes == 4
MaxPathLen == 2
NumThreads == 2
MaxBufs == 2
MaxBufLen == 2

SeqsUpTo(S, n) == UNION {[1..k -> S] : k \in 0..n}

CompA == Comp("generic", "a")
CompX == Comp("version", "x")

TEdges == {Lit(CompA), Var("u", "any"), Var("v", "generic")}
TPaths == SeqsUpTo(TEdges, MaxPathLen)
TNames == SeqsUpTo({CompA, CompX}, MaxPathLen)
NodeKinds == {"LeafNode"}

-----------------------------------------------------------------------------
(* Initial values                                                           *)

\* A hook invocation: for OnInterest, how often OnAttach had been invoked on
\* the node in its current attach cycle; for OnInterest and OnDetach, whether
\* a Detach had returned with no Attach since.
NoEvent == [hook |-> "none", att |-> 0, afterDetach |-> FALSE]

\* What the run has shown so far: whether the last Detach has returned with no
\* Attach since, the last hook invocation, and where the run stands in a
\* cycle Attach(P) ok, Detach, Attach(P).
NoObs ==
    [detached |-> FALSE, ev |-> NoEvent,
     cyc |-> [stage |-> "none", prefix |-> <<>>]]

NoWCall ==
    [op |-> "none", a |-> 0, b |-> 0, res |-> <<>>, pos |-> 0, err |-> Nil,
     preWire |-> <<>>, preBytes |-> <<>>, postBytes |-> <<>>]

NoCall ==
    [op |-> "none", path |-> <<>>, name |-> <<>>, kind |-> Nil, err |-> Nil,
     node |-> NoNode, matching |-> EmptyMatching,
     preRoot |-> NoNode, preNodes |-> <<>>]

InitTree ==
    /\ Root = NoNode
    /\ nodes = <<>>
    /\ Engine = Nil
    /\ attachedPrefix = <<>>

Threads == 1..NumThreads

NoArg ==
    [op |-> "none", prefix |-> <<>>, path |-> <<>>, kind |-> Nil, name |-> <<>>,
     err |-> Nil]

InitProcs ==
    /\ handlers = {}
    /\ writer = {}
    /\ readers = {}
    /\ pc = [t \in Threads |-> "idle"]
    /\ arg = [t \in Threads |-> NoArg]
    /\ hooks = <<>>
    /\ obs = NoObs

NoSlice == [set |-> FALSE, base |-> 0, off |-> 0, len |-> 0]

\* The byte a Buffer is filled with at position k: every byte of a Wire is
\* distinct, and none is the zero of make or the Poison of a recycled array.
ByteAt(i, k) == 16 * i + k
Poison == 255

InitWire ==
    \E lens \in SeqsUpTo(0..MaxBufLen, MaxBufs) :
        /\ heap = [i \in 1..Len(lens) |-> [k \in 1..lens[i] |-> ByteAt(i, k)]]
        /\ wire = [i \in 1..Len(lens) |-> Slice(i, 0, lens[i])]
        /\ joined = NoSlice
        /\ snap = <<>>
        /\ rpos = 0
        /\ wlast = NoWCall

IdleWire ==
    /\ heap = <<>>
    /\ wire = <<>>
    /\ joined = NoSlice
    /\ snap = <<>>
    /\ rpos = 0
    /\ wlast = NoWCall

-----------------------------------------------------------------------------
(* TreeSpec: PutNode and Match, one call at a time                          *)

TPutNode(path, kind) ==
    LET r == TreePutNode(Root, nodes, path, kind)
    IN /\ Len(r.nodes) <= MaxNodes
       /\ Root' = r.root
       /\ nodes' = r.nodes
       /\ last' = [NoCall EXCEPT !.op = "PutNode", !.path = path, !.kind = kind,
                                 !.err = r.err, !.node = r.node,
                                 !.preRoot = Root, !.preNodes = nodes]
       /\ UNCHANGED <<Engine, attachedPrefix, handlers, lockVars, procVars,
                      hooks, obs, wireVars>>

TMatch(name) ==
    LET r == TreeMatch(Root, nodes, attachedPrefix, name)
    IN /\ last' = [NoCall EXCEPT !.op = "Match", !.name = name, !.err = r.err,
                                 !.node = r.node, !.matching = r.matching,
                                 !.preRoot = Root, !.preNodes = nodes]
       /\ UNCHANGED <<treeVars, handlers, lockVars, procVars, hooks, obs, wireVars>>

TInit == InitTree /\ InitProcs /\ IdleWire /\ last = NoCall

TNext ==
    \/ \E path \in TPaths, kind \in NodeKinds : TPutNode(path, kind)
    \/ \E name \in TNames : TMatch(name)

TreeSpec == TInit /\ [][TNext]_vars

-----------------------------------------------------------------------------
(* Claims about the structural operations (checked under TreeSpec)          *)

Occupied(root, ns, path) == root # NoNode /\ NodeAt(ns, root, path) # NoNode

\* C5: PutNode(path, node) fails with "already exists" when the terminal of
\* path is occupied (for the empty path: whenever the tree has a root), and
\* then the root and every installed node are what they were before the call.
C5_PutNodeOccupiedFails ==
    (last.op = "PutNode" /\ Occupied(last.preRoot, last.preNodes, last.path))
        => /\ last.err = "exists"
           /\ Root = last.preRoot
           /\ nodes = last.preNodes

C5_Witness ==
    /\ last.op = "PutNode"
    /\ Len(last.path) = 2
    /\ Occupied(last.preRoot, last.preNodes, last.path)
    /\ last.err = "exists"

\* The proper prefixes of a path, the empty one (the root) included.
ProperPrefixes(path) == {SubSeq(path, 1, k) : k \in 0..(Len(path) - 1)}

\* C6: a PutNode(path, node) whose terminal is free succeeds; after it At(path)
\* is node, every proper prefix of path (the root included) resolves to a node,
\* the intermediates that were missing are BaseNode placeholders, and the nodes
\* installed before are still where they were; with the empty path on a tree
\* without a root, node becomes the root.
C6_PutNodeInstalls ==
    (last.op = "PutNode" /\ ~Occupied(last.preRoot, last.preNodes, last.path))
        => /\ last.err = Nil
           /\ Root # NoNode
           /\ TreeAt(Root, nodes, last.path).node = last.node
           /\ last.node \notin 1..Len(last.preNodes)
           /\ nodes[last.node].kind = last.kind
           /\ (last.path = <<>> => Root = last.node)
           /\ \A q \in ProperPrefixes(last.path) :
                 LET n == TreeAt(Root, nodes, q).node
                 IN /\ n # NoNode
                    /\ ~Occupied(last.preRoot, last.preNodes, q)
                          => nodes[n].kind = "BaseNode"
           /\ \A q \in TPaths :
                 Occupied(last.preRoot, last.preNodes, q)
                     => /\ Root = last.preRoot
                        /\ NodeAt(nodes, Root, q) = NodeAt(last.preNodes, Root, q)

C6_Witness ==
    /\ last.op = "PutNode"
    /\ Len(last.path) = 2
    /\ last.preRoot = NoNode
    /\ last.err = Nil
    /\ TreeAt(Root, nodes, last.path).node = last.node

\* The paths of the tree: the patterns that resolve to a node.
TreePathsOf(root, ns) == {q \in TPaths : Occupied(root, ns, q)}

PathMatches(q, name) ==
    /\ Len(q) = Len(name)
    /\ \A i \in 1..Len(q) : EdgeMatches(q[i], name[i])

\* Whether, among the children of one node, edge e is tried before edge f.
TriedBefore(ns, n, e, f) ==
    \/ e.lit /\ ~f.lit
    \/ /\ e.lit = f.lit
       /\ ChildIndex(ns, n, e) < ChildIndex(ns, n, f)

\* C7: on a tree with a root, Match(name) returns nil when no node's pattern
\* matches the name; a node it returns is at a pattern that matches the name,
\* no matching pattern branches off that pattern at a child that is tried
\* earlier (literal children before variable slots, variable slots in
\* insertion order), and the matching binds the pattern's slots to the name's
\* components.
C7_MatchOrder ==
    (last.op = "Match" /\ Root # NoNode) =>
        LET cands == {q \in TreePathsOf(Root, nodes) : PathMatches(q, last.name)}
        IN /\ last.err = Nil
           /\ cands = {} => last.node = NoNode
           /\ last.node # NoNode =>
                 \E q \in cands :
                     /\ NodeAt(nodes, Root, q) = last.node
                     /\ \A o \in cands \ {q} :
                           LET i == CHOOSE k \in 1..Len(q) :
                                        /\ q[k] # o[k]
                                        /\ SubSeq(q, 1, k - 1) = SubSeq(o, 1, k - 1)
                               par == NodeAt(nodes, Root, SubSeq(q, 1, i - 1))
                           IN TriedBefore(nodes, par, q[i], o[i])
                     /\ DOMAIN last.matching = {q[i].val : i \in {k \in 1..Len(q) : ~q[k].lit}}
                     /\ \A i \in 1..Len(q) :
                           (~q[i].lit /\ \A j \in (i + 1)..Len(q) : q[j].lit \/ q[j].val # q[i].val)
                               => last.matching[q[i].val] = last.name[i].val

\* A literal child and two variable slots compete for the last component, the
\* literal was inserted last, and Match returns the literal child.
C7_Witness ==
    /\ last.op = "Match"
    /\ Root # NoNode
    /\ last.name = <<CompA>>
    /\ Len(nodes[Root].chd) = 3
    /\ ~nodes[Root].chd[1].edge.lit
    /\ nodes[Root].chd[3].edge.lit
    /\ last.node = nodes[Root].chd[3].node

-----------------------------------------------------------------------------
(* WireSpec: Join on a Wire whose byte arrays are overwritten under it      *)

WireBytes(h, w) == [i \in 1..Len(w) |-> SliceBytes(h, w[i])]

idleTree == <<treeVars, handlers, lockVars, procVars, hooks, obs, last>>

JoinAct ==
    LET fresh == Len(wire) + 1
        r == WireJoin(heap, wire, fresh)
        h1 == SubSeq(heap, 1, Len(wire))
        h2 == IF r.alloc THEN Append(h1, r.bytes) ELSE h1
    IN /\ joined' = r.slice
       /\ heap' = h2
       /\ snap' = r.bytes
       /\ wlast' = [NoWCall EXCEPT !.op = "Join", !.preWire = wire,
                                   !.preBytes = WireBytes(heap, wire),
                                   !.postBytes = WireBytes(h2, wire)]
       /\ UNCHANGED <<wire, rpos, idleTree>>

\* The owner of the byte array behind Buffer i of the Wire reuses it:
\* byte k of the array is overwritten.
Overwrite(i, k) ==
    /\ i \in 1..Len(wire)
    /\ k \in 1..Len(heap[wire[i].base])
    /\ heap' = [heap EXCEPT ![wire[i].base][k] = Poison]
    /\ UNCHANGED <<wire, joined, snap, rpos, wlast, idleTree>>

WInit == InitTree /\ InitProcs /\ InitWire /\ last = NoCall

WNext ==
    \/ JoinAct
    \/ \E i \in 1..MaxBufs, k \in 1..MaxBufLen : Overwrite(i, k)

WireSpec == WInit /\ [][WNext]_vars

-----------------------------------------------------------------------------
(* ReaderSpec: a ParseReader over a Wire                                    *)

SkipAct(n) ==
    LET r == ReaderSkip(wire, rpos, n)
    IN /\ rpos' = r.pos
       /\ wlast' = [NoWCall EXCEPT !.op = "Skip", !.a = n, !.pos = rpos, !.err = r.err]
       /\ UNCHANGED <<heap, wire, joined, snap, idleTree>>

RangeAct(a, b) ==
    LET r == ReaderRange(wire, rpos, a, b)
    IN /\ a <= b
       /\ b <= ReaderLength(wire)
       /\ rpos' = r.pos
       /\ wlast' = [NoWCall EXCEPT !.op = "Range", !.a = a, !.b = b, !.res = r.wire,
                                   !.pos = rpos]
       /\ UNCHANGED <<heap, wire, joined, snap, idleTree>>

MaxOffset == MaxBufs * MaxBufLen

RNext ==
    \/ \E n \in 0..MaxBufLen : SkipAct(n)
    \/ \E a, b \in 0..MaxOffset : RangeAct(a, b)

ReaderSpec == WInit /\ [][RNext]_vars

-----------------------------------------------------------------------------
(* Claims about Wire.Join and ParseReader.Range                             *)

WireBases == {wire[i].base : i \in 1..Len(wire)}

\* C8 as claimed: whatever the Wire, the slice Join returned is an owned copy:
\* it keeps the bytes it had when Join returned, however the byte arrays of
\* the Wire's Buffers are overwritten afterwards.
C8_JoinOwnedAlways ==
    joined.set => SliceBytes(heap, joined) = snap

\* C8 as amended: for a Wire of no or of several Buffers the slice Join
\* returned is a new array, shared with no Buffer of the Wire, and keeps its
\* bytes when the Wire's arrays are recycled; for a Wire of one Buffer Join
\* returns that Buffer itself (same array, same window), not a copy.
C8_JoinOwnedUnlessSingle ==
    joined.set =>
        IF Len(wire) = 1
        THEN joined = wire[1]
        ELSE /\ joined.base \notin WireBases
             /\ joined.base # 0
             /\ SliceBytes(heap, joined) = snap

C8_Witness ==
    /\ joined.set
    /\ Len(wire) = 2
    /\ wire[1].len > 0 /\ wire[2].len > 0
    /\ heap[wire[1].base][1] = Poison
    /\ heap[wire[2].base][1] = Poison
    /\ SliceBytes(heap, joined) = snap
    /\ snap[1] = ByteAt(1, 1)

\* Byte k (from 1) of the logical stream of Wire w.
RECURSIVE LogicalByte(_, _, _)
LogicalByte(h, w, k) ==
    IF k <= Head(w).len THEN h[Head(w).base][Head(w).off + k]
    ELSE LogicalByte(h, Tail(w), k - Head(w).len)

\* C9: Join returns the in-order concatenation of the Wire's Buffers: its
\* length is the sum of the Buffer lengths, its byte k is byte k of the
\* logical stream, the empty Wire gives an empty non-nil slice, and neither
\* the Wire nor the bytes of its Buffers are changed by the call.
C9_JoinConcat ==
    wlast.op = "Join" =>
        /\ Len(snap) = SumLen(wlast.preWire)
        /\ joined.len = Len(snap)
        /\ \A k \in 1..Len(snap) :
              snap[k] = LogicalByte(wlast.preBytes,
                                    [i \in 1..Len(wire) |-> Slice(i, 0, wire[i].len)], k)
        /\ (Len(wire) = 0 => joined.set /\ joined.base # 0 /\ joined.len = 0)
        /\ wire = wlast.preWire
        /\ wlast.postBytes = wlast.preBytes

C9_Witness ==
    /\ wlast.op = "Join"
    /\ Len(wire) = 2
    /\ wire[1].len = 0
    /\ wire[2].len = 2
    /\ snap = <<ByteAt(2, 1), ByteAt(2, 2)>>

\* C10: on a reader over a non-empty Wire w, for 0 <= a <= b <= Length,
\* Range(a, b).Join() is bytes a..b of w.Join(), and Range leaves the cursor
\* where it was.
C10_RangeJoin ==
    (wlast.op = "Range" /\ wire # <<>>) =>
        LET fresh == Len(heap) + 1
            whole == WireJoin(heap, wire, fresh).bytes
            part == WireJoin(heap, wlast.res, fresh).bytes
        IN /\ part = SubSeq(whole, wlast.a + 1, wlast.b)
           /\ rpos = wlast.pos

\* A Range that starts inside one Buffer and ends inside the next, asked for
\* with the cursor in the middle of the Wire.
C10_Witness ==
    /\ wlast.op = "Range"
    /\ Len(wire) = 2
    /\ wlast.a = 1 /\ wlast.b = 3
    /\ Len(wlast.res) = 2
    /\ rpos = 2
    /\ WireJoin(heap, wlast.res, Len(heap) + 1).bytes = <<ByteAt(1, 2), ByteAt(2, 1)>>

-----------------------------------------------------------------------------
(* Spec: the Tree under concurrent callers and an engine                    *)

CompP == Comp("generic", "p")

Prefixes == {<<>>, <<CompP>>}
LPaths == {<<>>, <<Lit(CompA)>>}
IntNames == {<<>>, <<CompA>>, <<CompP>>, <<CompP, CompA>>}
MatchNames == {<<CompA>>}
TheEngine == "engine"

\* The counters of hook invocations saturate here ("twice or more").
Sat(n) == IF n >= 2 THEN 2 ELSE n

ZeroHooks == [att |-> 0, det |-> 0]

HookOf(n) == IF n \in DOMAIN hooks THEN hooks[n] ELSE ZeroHooks

\* The nodes below n, n first, children in insertion order (depth-first).
RECURSIVE Dfs(_, _)
RECURSIVE DfsAll(_, _)
Dfs(ns, n) == <<n>> \o DfsAll(ns, ns[n].chd)
DfsAll(ns, chd) ==
    IF chd = <<>> THEN <<>> ELSE Dfs(ns, Head(chd).node) \o DfsAll(ns, Tail(chd))

\* NTNode.OnAttach invoked on the nodes of set S: a new attach cycle of each
\* starts counting its OnDetach calls afresh.
HooksOnAttach(S) ==
    [n \in 1..Len(nodes) |->
        IF n \in S THEN [att |-> Sat(HookOf(n).att + 1), det |-> 0] ELSE HookOf(n)]

\* NTNode.OnDetach invoked on the nodes of set S: their attach cycle ends.
HooksOnDetach(S) ==
    [n \in 1..Len(nodes) |->
        IF n \in S THEN [att |-> 0, det |-> Sat(HookOf(n).det + 1)] ELSE HookOf(n)]

\* engine.AttachHandler rejects a prefix when an equal or covering one is
\* registered.
Covered(hs, prefix) == \E p \in hs : IsPrefix(p, prefix)

EngineAttachHandler(hs, prefix) ==
    IF Covered(hs, prefix) THEN [err |-> "DuplicatePrefix", handlers |-> hs]
    ELSE [err |-> Nil, handlers |-> hs \cup {prefix}]

EngineDetachHandler(hs, prefix) == hs \ {prefix}

\* A panic that nothing recovers ends the program.
Crashed == \E t \in Threads : pc[t] = "panic"

Idle(t) == pc[t] = "idle" /\ t \notin readers /\ ~Crashed

Goto(t, label) == pc' = [pc EXCEPT ![t] = label]

\* sync.RWMutex: Lock waits until no writer and no reader holds the lock;
\* RLock waits while a writer holds it, and a blocked Lock call keeps new
\* readers from joining the readers that hold it.
LockWait == {"att_lock", "det_lock", "put_lock"}
WriterWaiting == \E u \in Threads : pc[u] \in LockWait
CanLock == writer = {} /\ readers = {}
CanRLock == writer = {} /\ (readers = {} \/ ~WriterWaiting)

---- (* Tree.Attach *)

AttachCall(t, prefix) ==
    /\ Idle(t)
    /\ Goto(t, "att_lock")
    /\ arg' = [arg EXCEPT ![t] = [NoArg EXCEPT !.op = "Attach", !.prefix = prefix]]
    /\ UNCHANGED <<treeVars, handlers, lockVars, hooks, obs, last, wireVars>>

AttachLock(t) ==
    /\ pc[t] = "att_lock" /\ ~Crashed
    /\ CanLock
    /\ writer' = {t}
    /\ Goto(t, "att_set")
    /\ UNCHANGED <<treeVars, handlers, readers, arg, hooks, obs, last, wireVars>>

\* An Attach that registers the prefix right after binding it, before any
\* OnAttach has been invoked.
AttachSetPrefixThenRegister(t) ==
    /\ pc[t] = "att_set" /\ ~Crashed
    /\ Root # NoNode
    /\ attachedPrefix' = arg[t].prefix
    /\ Goto(t, "att_register")
    /\ UNCHANGED <<Root, nodes, Engine, handlers, lockVars, arg, hooks, obs, last, wireVars>>

\* t.Root.SetAttachedPrefix(prefix); on a nil Root the call panics, and the
\* deferred Unlock runs while the panic unwinds. The node may refuse the
\* prefix (ok = FALSE): it reports an error and binds nothing.
AttachSetPrefix(t) ==
    /\ pc[t] = "att_set" /\ ~Crashed
    /\ IF Root = NoNode
       THEN /\ writer' = {}
            /\ Goto(t, "panic")
            /\ UNCHANGED <<attachedPrefix, arg>>
       ELSE \E ok \in BOOLEAN :
              IF ok
              THEN /\ attachedPrefix' = arg[t].prefix
                   /\ Goto(t, "att_onattach")
                   /\ UNCHANGED <<writer, arg>>
              ELSE /\ arg' = [arg EXCEPT ![t].err = "SetPrefixError"]
                   /\ Goto(t, "att_unlock")
                   /\ UNCHANGED <<attachedPrefix, writer>>
    /\ UNCHANGED <<Root, nodes, Engine, handlers, readers, hooks, obs, last, wireVars>>

\* t.Root.OnAttach(path, engine): the walk invokes OnAttach on the nodes in
\* depth-first order; it goes through (k nodes, all of them), or the hook of
\* the k-th node reports an error and the walk stops there.
AttachOnAttach(t) ==
    /\ pc[t] = "att_onattach" /\ ~Crashed
    /\ LET order == Dfs(nodes, Root)
       IN \E k \in 1..Len(order), ok \in BOOLEAN :
            /\ ok => k = Len(order)
            /\ hooks' = HooksOnAttach({order[i] : i \in 1..k})
            /\ obs' = [obs EXCEPT !.detached = FALSE,
                                  !.ev = [NoEvent EXCEPT !.hook = "OnAttach"]]
            /\ IF ok
               THEN /\ Goto(t, "att_register")
                    /\ UNCHANGED arg
               ELSE /\ Goto(t, "att_unlock")
                    /\ arg' = [arg EXCEPT ![t].err = "OnAttachError"]
    /\ UNCHANGED <<treeVars, handlers, lockVars, last, wireVars>>

\* An Attach that goes on to set Tree.Engine whatever AttachHandler returned.
AttachRegisterIgnoringError(t) ==
    /\ pc[t] = "att_register" /\ ~Crashed
    /\ handlers' = EngineAttachHandler(handlers, arg[t].prefix).handlers
    /\ Goto(t, "att_setengine")
    /\ UNCHANGED <<treeVars, lockVars, arg, hooks, obs, last, wireVars>>

AttachRegister(t) ==
    /\ pc[t] = "att_register" /\ ~Crashed
    /\ LET r == EngineAttachHandler(handlers, arg[t].prefix)
       IN /\ handlers' = r.handlers
          /\ IF r.err = Nil
             THEN /\ Goto(t, "att_setengine")
                  /\ UNCHANGED arg
             ELSE /\ Goto(t, "att_unlock")
                  /\ arg' = [arg EXCEPT ![t].err = r.err]
    /\ UNCHANGED <<treeVars, lockVars, hooks, obs, last, wireVars>>

AttachSetEngine(t) ==
    /\ pc[t] = "att_setengine" /\ ~Crashed
    /\ Engine' = TheEngine
    /\ Goto(t, "att_unlock")
    /\ UNCHANGED <<Root, nodes, attachedPrefix, handlers, lockVars, arg, hooks, obs,
                   last, wireVars>>

\* Where a returning Attach(prefix) with result err takes the cycle
\* Attach(P) ok, Detach, Attach(P).
CycAfterAttach(cyc, prefix, err) ==
    IF cyc.stage = "detached" /\ cyc.prefix = prefix
    THEN IF err = Nil THEN [stage |-> "reattached", prefix |-> prefix]
         ELSE IF err \in {"SetPrefixError", "OnAttachError"}
              THEN [stage |-> "none", prefix |-> <<>>]
         ELSE [stage |-> "rejected", prefix |-> prefix]
    ELSE IF err = Nil THEN [stage |-> "attached", prefix |-> prefix]
         ELSE [stage |-> "none", prefix |-> <<>>]

\* The deferred t.lock.Unlock() and the return.
AttachUnlock(t) ==
    /\ pc[t] = "att_unlock" /\ ~Crashed
    /\ writer' = {}
    /\ Goto(t, "idle")
    /\ obs' = [obs EXCEPT !.cyc = CycAfterAttach(@, arg[t].prefix, arg[t].err)]
    /\ arg' = [arg EXCEPT ![t] = NoArg]
    /\ UNCHANGED <<treeVars, handlers, readers, hooks, last, wireVars>>

---- (* Tree.Detach *)

DetachCall(t) ==
    /\ Idle(t)
    /\ Goto(t, "det_check")
    /\ arg' = [arg EXCEPT ![t] = [NoArg EXCEPT !.op = "Detach"]]
    /\ UNCHANGED <<treeVars, handlers, lockVars, hooks, obs, last, wireVars>>

\* A Detach that goes on to take the lock whatever Tree.Engine is.
DetachCheckAlways(t) ==
    /\ pc[t] = "det_check" /\ ~Crashed
    /\ Goto(t, "det_lock")
    /\ UNCHANGED <<treeVars, handlers, lockVars, arg, hooks, obs, last, wireVars>>

\* if t.Engine == nil { return }: read without the lock.
DetachCheck(t) ==
    /\ pc[t] = "det_check" /\ ~Crashed
    /\ IF Engine = Nil
       THEN /\ Goto(t, "idle")
            /\ arg' = [arg EXCEPT ![t] = NoArg]
       ELSE /\ Goto(t, "det_lock")
            /\ UNCHANGED arg
    /\ UNCHANGED <<treeVars, handlers, lockVars, hooks, obs, last, wireVars>>

DetachLock(t) ==
    /\ pc[t] = "det_lock" /\ ~Crashed
    /\ CanLock
    /\ writer' = {t}
    /\ Goto(t, "det_handler")
    /\ UNCHANGED <<treeVars, handlers, readers, arg, hooks, obs, last, wireVars>>

\* A Detach that leaves the prefix registered on the engine.
DetachHandlerSkipped(t) ==
    /\ pc[t] = "det_handler" /\ ~Crashed
    /\ Goto(t, "det_ondetach")
    /\ UNCHANGED <<treeVars, handlers, lockVars, arg, hooks, obs, last, wireVars>>

\* t.Engine.DetachHandler(t.Root.AttachedPrefix())
DetachHandler(t) ==
    /\ pc[t] = "det_handler" /\ ~Crashed
    /\ handlers' = EngineDetachHandler(handlers, attachedPrefix)
    /\ Goto(t, "det_ondetach")
    /\ UNCHANGED <<treeVars, lockVars, arg, hooks, obs, last, wireVars>>

\* t.Root.OnDetach(): every node of the tree, bottom-up.
DetachOnDetach(t) ==
    /\ pc[t] = "det_ondetach" /\ ~Crashed
    /\ hooks' = HooksOnDetach(1..Len(nodes))
    /\ obs' = [obs EXCEPT !.ev = [NoEvent EXCEPT !.hook = "OnDetach",
                                                 !.afterDetach = obs.detached]]
    /\ Goto(t, "det_unlock")
    /\ UNCHANGED <<treeVars, handlers, lockVars, arg, last, wireVars>>

CycAfterDetach(cyc) ==
    IF cyc.stage \in {"attached", "reattached"}
    THEN [stage |-> "detached", prefix |-> cyc.prefix]
    ELSE [stage |-> "none", prefix |-> <<>>]

DetachUnlock(t) ==
    /\ pc[t] = "det_unlock" /\ ~Crashed
    /\ writer' = {}
    /\ Goto(t, "idle")
    /\ obs' = [obs EXCEPT !.detached = TRUE, !.cyc = CycAfterDetach(@)]
    /\ arg' = [arg EXCEPT ![t] = NoArg]
    /\ UNCHANGED <<treeVars, handlers, readers, hooks, last, wireVars>>

---- (* Tree.PutNode *)

PutCall(t, path, kind) ==
    /\ Idle(t)
    /\ Goto(t, "put_lock")
    /\ arg' = [arg EXCEPT ![t] = [NoArg EXCEPT !.op = "PutNode", !.path = path,
                                               !.kind = kind]]
    /\ UNCHANGED <<treeVars, handlers, lockVars, hooks, obs, last, wireVars>>

\* A PutNode that takes the lock shared (RLock) instead of exclusively.
PutLockShared(t) ==
    /\ pc[t] = "put_lock" /\ ~Crashed
    /\ CanRLock
    /\ readers' = readers \cup {t}
    /\ Goto(t, "put_body")
    /\ UNCHANGED <<treeVars, handlers, writer, arg, hooks, obs, last, wireVars>>

PutLock(t) ==
    /\ pc[t] = "put_lock" /\ ~Crashed
    /\ CanLock
    /\ writer' = {t}
    /\ Goto(t, "put_body")
    /\ UNCHANGED <<treeVars, handlers, readers, arg, hooks, obs, last, wireVars>>

PutBody(t) ==
    /\ pc[t] = "put_body" /\ ~Crashed
    /\ LET r == TreePutNode(Root, nodes, arg[t].path, arg[t].kind)
       IN /\ Root' = r.root
          /\ nodes' = r.nodes
          /\ hooks' = [n \in 1..Len(r.nodes) |-> HookOf(n)]
          /\ arg' = [arg EXCEPT ![t].err = r.err]
    /\ Goto(t, "put_unlock")
    /\ UNCHANGED <<Engine, attachedPrefix, handlers, lockVars, obs, last, wireVars>>

\* A PutNode that returns with the lock still held.
PutUnlockKeepsLock(t) ==
    /\ pc[t] = "put_unlock" /\ ~Crashed
    /\ Goto(t, "idle")
    /\ arg' = [arg EXCEPT ![t] = NoArg]
    /\ UNCHANGED <<treeVars, handlers, lockVars, hooks, obs, last, wireVars>>

PutUnlock(t) ==
    /\ pc[t] = "put_unlock" /\ ~Crashed
    /\ writer' = {}
    /\ Goto(t, "idle")
    /\ arg' = [arg EXCEPT ![t] = NoArg]
    /\ UNCHANGED <<treeVars, handlers, readers, hooks, obs, last, wireVars>>

---- (* Tree.intHandler *)

IsDigest(c) == c.typ = "params-sha256" \/ c.typ = "implicit-sha256"

\* An intHandler that hands an Interest matching no node to the root.
IntHandlerMatchFallback(root, ns, prefix, name) ==
    IF Len(name) = 0 \/ root = NoNode
    THEN [panic |-> TRUE, node |-> NoNode, matching |-> EmptyMatching]
    ELSE LET lastc == name[Len(name)]
             digest == IsDigest(lastc)
             matchName == IF digest THEN SubSeq(name, 1, Len(name) - 1) ELSE name
             r == NodeMatch(ns, root, prefix, matchName)
         IN [panic |-> FALSE, node |-> IF r.node = NoNode THEN root ELSE r.node,
             matching |-> r.matching]

\* An intHandler that matches on the whole name, digest component included.
IntHandlerMatchNoStrip(root, ns, prefix, name) ==
    IF Len(name) = 0 \/ root = NoNode
    THEN [panic |-> TRUE, node |-> NoNode, matching |-> EmptyMatching]
    ELSE LET lastc == name[Len(name)]
             r == NodeMatch(ns, root, prefix, name)
             key == IF lastc.typ = "params-sha256" THEN "params-sha256"
                    ELSE "sha256digest"
         IN [panic |-> FALSE, node |-> r.node,
             matching |-> IF r.node # NoNode /\ IsDigest(lastc)
                          THEN Bind(r.matching, key, lastc.val)
                          ELSE r.matching]

\* Lines 74-93 of intHandler: the name that is matched, the node and the
\* matching handed to OnInterest; indexing the last component of a name
\* without components panics.
IntHandlerMatch(root, ns, prefix, name) ==
    IF Len(name) = 0 \/ root = NoNode
    THEN [panic |-> TRUE, node |-> NoNode, matching |-> EmptyMatching]
    ELSE LET lastc == name[Len(name)]
             digest == IsDigest(lastc)
             matchName == IF digest THEN SubSeq(name, 1, Len(name) - 1) ELSE name
             r == NodeMatch(ns, root, prefix, matchName)
             key == IF lastc.typ = "params-sha256" THEN "params-sha256"
                    ELSE "sha256digest"
         IN [panic |-> FALSE, node |-> r.node,
             matching |-> IF r.node # NoNode /\ digest
                          THEN Bind(r.matching, key, lastc.val)
                          ELSE r.matching]

\* The engine finds a handler registered for a prefix of the Interest's name
\* and calls it.
IntDispatch(t, name) ==
    /\ Idle(t)
    /\ \E p \in handlers : IsPrefix(p, name)
    /\ Goto(t, "int_rlock")
    /\ arg' = [arg EXCEPT ![t] = [NoArg EXCEPT !.op = "intHandler", !.name = name]]
    /\ UNCHANGED <<treeVars, handlers, lockVars, hooks, obs, last, wireVars>>

\* An intHandler that enters without waiting for a writer to leave.
IntRLockNoWait(t) ==
    /\ pc[t] = "int_rlock" /\ ~Crashed
    /\ readers' = readers \cup {t}
    /\ Goto(t, "int_body")
    /\ UNCHANGED <<treeVars, handlers, writer, arg, hooks, obs, last, wireVars>>

IntRLock(t) ==
    /\ pc[t] = "int_rlock" /\ ~Crashed
    /\ CanRLock
    /\ readers' = readers \cup {t}
    /\ Goto(t, "int_body")
    /\ UNCHANGED <<treeVars, handlers, writer, arg, hooks, obs, last, wireVars>>

\* Match, then node.OnInterest, or the drop; a panic runs the deferred RUnlock.
IntBody(t) ==
    /\ pc[t] = "int_body" /\ ~Crashed
    /\ LET r == IntHandlerMatch(Root, nodes, attachedPrefix, arg[t].name)
       IN IF r.panic
          THEN /\ readers' = readers \ {t}
               /\ Goto(t, "panic")
               /\ UNCHANGED <<arg, obs>>
          ELSE /\ Goto(t, "int_runlock")
               /\ UNCHANGED readers
               /\ IF r.node = NoNode
                  THEN /\ arg' = [arg EXCEPT ![t].err = "drop"]
                       /\ UNCHANGED obs
                  ELSE /\ obs' = [obs EXCEPT !.ev = [hook |-> "OnInterest",
                                                     att |-> HookOf(r.node).att,
                                                     afterDetach |-> obs.detached]]
                       /\ UNCHANGED arg
    /\ UNCHANGED <<treeVars, handlers, writer, hooks, last, wireVars>>

IntRUnlock(t) ==
    /\ pc[t] = "int_runlock" /\ ~Crashed
    /\ readers' = readers \ {t}
    /\ Goto(t, "idle")
    /\ arg' = [arg EXCEPT ![t] = NoArg]
    /\ UNCHANGED <<treeVars, handlers, writer, hooks, obs, last, wireVars>>

---- (* Tree.Match, Tree.RLock, Tree.RUnlock *)

\* A caller enters Tree.Match, with or without the shared lock in hand.
MatchCall(t, name) ==
    /\ pc[t] = "idle" /\ ~Crashed
    /\ Goto(t, "match_body")
    /\ arg' = [arg EXCEPT ![t] = [NoArg EXCEPT !.op = "Match", !.name = name]]
    /\ UNCHANGED <<treeVars, handlers, lockVars, hooks, obs, last, wireVars>>

\* return t.Root.Match(name): no lock is taken.
MatchBody(t) ==
    /\ pc[t] = "match_body" /\ ~Crashed
    /\ LET r == TreeMatch(Root, nodes, attachedPrefix, arg[t].name)
       IN IF r.err = "panic"
          THEN /\ Goto(t, "panic")
               /\ UNCHANGED arg
          ELSE /\ Goto(t, "idle")
               /\ arg' = [arg EXCEPT ![t] = NoArg]
    /\ UNCHANGED <<treeVars, handlers, lockVars, hooks, obs, last, wireVars>>

TreeRLock(t) ==
    /\ Idle(t)
    /\ CanRLock
    /\ readers' = readers \cup {t}
    /\ UNCHANGED <<treeVars, handlers, writer, procVars, hooks, obs, last, wireVars>>

TreeRUnlock(t) ==
    /\ pc[t] = "idle" /\ t \in readers /\ ~Crashed
    /\ readers' = readers \ {t}
    /\ UNCHANGED <<treeVars, handlers, writer, procVars, hooks, obs, last, wireVars>>

---- (* The specification *)

Init == InitTree /\ InitProcs /\ IdleWire /\ last = NoCall

Next ==
    \E t \in Threads :
        \/ \E prefix \in Prefixes : AttachCall(t, prefix)
        \/ AttachLock(t)
        \/ AttachSetPrefix(t)
        \/ AttachOnAttach(t)
        \/ AttachRegister(t)
        \/ AttachSetEngine(t)
        \/ AttachUnlock(t)
        \/ DetachCall(t)
        \/ DetachCheck(t)
        \/ DetachLock(t)
        \/ DetachHandler(t)
        \/ DetachOnDetach(t)
        \/ DetachUnlock(t)
        \/ \E path \in LPaths, kind \in NodeKinds : PutCall(t, path, kind)
        \/ PutLock(t)
        \/ PutBody(t)
        \/ PutUnlock(t)
        \/ \E name \in IntNames : IntDispatch(t, name)
        \/ IntRLock(t)
        \/ IntBody(t)
        \/ IntRUnlock(t)
        \/ \E name \in MatchNames : MatchCall(t, name)
        \/ MatchBody(t)
        \/ TreeRLock(t)
        \/ TreeRUnlock(t)

Spec == Init /\ [][Next]_vars

-----------------------------------------------------------------------------
(* Claims about the Tree's life cycle and its lock (checked under Spec)     *)

\* C1: whenever OnInterest is invoked on a node, OnAttach has been invoked on
\* that node exactly once in its current attach cycle.
C1_AttachedOnceBeforeInterest ==
    obs.ev.hook = "OnInterest" => obs.ev.att = 1

\* C2: in every attach cycle OnDetach is invoked on a node at most once,
\* however often Detach is called, and once a Detach has returned (and no
\* Attach has started a new cycle) neither OnInterest nor OnDetach is invoked.
C2_DetachedOnceThenSilent ==
    /\ \A n \in 1..Len(nodes) : HookOf(n).det <= 1
    /\ obs.ev.hook \in {"OnInterest", "OnDetach"} => ~obs.ev.afterDetach

\* The positions at which a call reads the tree: inside Tree.Match, and inside
\* intHandler between RLock and RUnlock.
ReadingTree(t) == pc[t] \in {"match_body", "int_body"}

\* The positions inside the critical sections of Attach, Detach and PutNode.
WriterCS ==
    {"att_set", "att_onattach", "att_register", "att_setengine", "att_unlock",
     "det_handler", "det_ondetach", "det_unlock", "put_body", "put_unlock"}

WritersExclusive ==
    /\ Cardinality(writer) <= 1
    /\ \A t \in Threads : pc[t] \in WriterCS => writer = {t} /\ readers = {}

\* C3 as claimed: Attach, Detach and PutNode hold the lock exclusively, and
\* no call inside Tree.Match or inside intHandler reads the tree while one of
\* them is inside its critical section.
C3_MatchAndHandlerShared ==
    /\ WritersExclusive
    /\ \A t \in Threads : ReadingTree(t) => writer = {}

\* C3 as amended: Attach, PutNode and Detach (after its unlocked check of
\* Engine) hold the lock exclusively and intHandler holds it shared, so no
\* intHandler reads the tree while a writer is inside its critical section;
\* Tree.Match takes no lock, and a Match call is kept out of the writers'
\* critical sections only when its caller holds the lock shared through
\* Tree.RLock / Tree.RUnlock.
C3_LockDiscipline ==
    /\ WritersExclusive
    /\ \A t \in Threads :
          /\ pc[t] \in {"int_body", "int_runlock"} => t \in readers /\ writer = {}
          /\ (pc[t] = "match_body" /\ t \in readers) => writer = {}

\* One caller is inside Match with the shared lock taken through RLock while
\* a PutNode waits for the exclusive lock.
C3_Witness ==
    \E t, u \in Threads :
        /\ pc[t] = "match_body" /\ t \in readers
        /\ pc[u] = "put_lock"

\* C4: after a successful Attach(P, engine) followed by Detach(), P is not
\* registered on the engine, and the next Attach(P, engine) is not rejected:
\* it succeeds unless the root's SetAttachedPrefix or an OnAttach hook itself
\* reports an error; this holds for every further cycle.
C4_ReattachAfterDetach ==
    /\ obs.cyc.stage # "rejected"
    /\ (obs.cyc.stage = "detached" /\ writer = {}) => obs.cyc.prefix \notin handlers

\* Attach(P) has succeeded again after Attach(P), Detach.
C4_Witness ==
    /\ obs.cyc.stage = "reattached"
    /\ obs.cyc.prefix = <<CompP>>
    /\ obs.cyc.prefix \in handlers
    /\ Engine = TheEngine
    /\ writer = {}

-----------------------------------------------------------------------------
(* Claims about the steps of Attach, Detach and intHandler (under Spec)     *)

\* OnAttach has been invoked, in the current attach cycle, on every node of
\* the tree.
WalkComplete ==
    LET order == Dfs(nodes, Root)
    IN \A i \in 1..Len(order) : HookOf(order[i]).att >= 1

OnAttachInvoked == \E n \in DOMAIN hooks' : hooks'[n].att > HookOf(n).att
OnDetachInvoked == \E n \in DOMAIN hooks' : hooks'[n].det > HookOf(n).det

AttachDetachOrder ==
    /\ (handlers' # handlers /\ handlers \subseteq handlers') =>
          \E t \in Threads :
              /\ pc[t] = "att_register"
              /\ handlers' = handlers \cup {arg[t].prefix}
              /\ attachedPrefix = arg[t].prefix
              /\ WalkComplete
              /\ hooks' = hooks
    /\ OnAttachInvoked =>
          \E t \in Threads :
              /\ pc[t] = "att_onattach"
              /\ attachedPrefix = arg[t].prefix
              /\ handlers' = handlers
    /\ (handlers' # handlers /\ handlers' \subseteq handlers) =>
          \E t \in Threads :
              /\ pc[t] = "det_handler" /\ pc'[t] = "det_ondetach"
              /\ handlers' = handlers \ {attachedPrefix}
              /\ hooks' = hooks
    /\ OnDetachInvoked =>
          \E t \in Threads :
              /\ pc[t] = "det_ondetach"
              /\ attachedPrefix \notin handlers
              /\ handlers' = handlers

\* C11: Attach binds the root's attached prefix, then invokes OnAttach on the
\* nodes, and only then registers the prefix on the engine (so the handler
\* is registered only when every OnAttach call has returned); Detach
\* unregisters the prefix first and only then invokes OnDetach.
C11_AttachDetachOrder == [][AttachDetachOrder]_vars

\* A Detach after a successful Attach has unregistered the prefix and has
\* then invoked OnDetach on the nodes.
C11_Witness ==
    \E t \in Threads :
        /\ pc[t] = "det_unlock"
        /\ Engine = TheEngine
        /\ attachedPrefix \notin handlers
        /\ \E n \in DOMAIN hooks : hooks[n].det = 1

AttachStopsAtFailure ==
    /\ \A t \in Threads :
          /\ (pc[t] = "att_set" /\ pc'[t] = "att_unlock") =>
                /\ arg'[t].err # Nil
                /\ hooks' = hooks /\ handlers' = handlers /\ Engine' = Engine
          /\ (pc[t] = "att_onattach" /\ pc'[t] = "att_unlock") =>
                /\ arg'[t].err # Nil
                /\ handlers' = handlers /\ Engine' = Engine
          /\ (pc[t] = "att_register" /\ pc'[t] # "att_register") =>
                IF Covered(handlers, arg[t].prefix)
                THEN /\ pc'[t] = "att_unlock"
                     /\ arg'[t].err = "DuplicatePrefix"
                     /\ handlers' = handlers /\ Engine' = Engine
                ELSE /\ pc'[t] = "att_setengine"
                     /\ arg'[t].err = Nil
          /\ (pc[t] = "att_unlock" /\ arg[t].err # Nil) =>
                hooks' = hooks /\ handlers' = handlers /\ Engine' = Engine
          /\ (pc[t] = "att_unlock" /\ pc'[t] = "idle" /\ arg[t].err = Nil) =>
                Engine = TheEngine /\ arg[t].prefix \in handlers
    /\ Engine' # Engine =>
          \E t \in Threads :
              /\ pc[t] = "att_setengine" /\ pc'[t] = "att_unlock"
              /\ arg'[t].err = Nil
              /\ Engine' = TheEngine

\* C12: Attach stops at its first failing step and returns that step's error:
\* a failing SetAttachedPrefix leaves OnAttach uninvoked and the engine
\* untouched, a failing OnAttach leaves the engine untouched, a prefix the
\* engine rejects (an equal or covering one is registered) is returned as
\* DuplicatePrefix; none of the three sets Tree.Engine, which is set only by
\* an Attach that returns nil.
C12_AttachStopsAtFailure == [][AttachStopsAtFailure]_vars

\* An Attach on a tree never attached before is about to return the error of
\* an OnAttach hook: nothing is registered and Tree.Engine is unset.
C12_Witness ==
    \E t \in Threads :
        /\ pc[t] = "att_unlock"
        /\ arg[t].err = "OnAttachError"
        /\ Engine = Nil
        /\ handlers = {}
        /\ \E n \in DOMAIN hooks : hooks[n].att = 1

\* The positions inside the body of Attach.
AttachCS == {"att_set", "att_onattach", "att_register", "att_setengine", "att_unlock"}

DetachLeavesNothingAttached ==
    \A t \in Threads :
        (/\ pc[t] \in {"det_check", "det_unlock"}
         /\ pc'[t] = "idle"
         /\ \A u \in Threads : pc[u] \notin AttachCS)
        => /\ \A n \in DOMAIN hooks' : hooks'[n].att = 0
           /\ handlers' = {}

\* C13: when a Detach call returns after any sequence of Attach calls
\* (successful or failed at any step, none still running), no node is left
\* attached (every node that received OnAttach has received OnDetach) and no
\* prefix of the tree is left registered on the engine.
C13_DetachLeavesNothingAttached == [][DetachLeavesNothingAttached]_vars

\* C16: several intHandler calls may be inside their dispatch (Match and the
\* OnInterest hook, under the shared lock) at once, but none is while an
\* Attach, Detach or PutNode is inside its critical section, and at most one
\* of Attach, Detach, PutNode is inside its critical section at any time.
C16_DispatchExcludesWriters ==
    /\ Cardinality({t \in Threads : pc[t] \in WriterCS}) <= 1
    /\ \A t, u \in Threads :
          pc[t] \in {"int_body", "int_runlock"} =>
              /\ t \in readers
              /\ pc[u] \notin WriterCS

\* Two intHandler calls are inside their dispatch at the same time.
C16_Witness ==
    \E t, u \in Threads :
        /\ t # u
        /\ pc[t] = "int_body" /\ pc[u] = "int_body"
        /\ {t, u} \subseteq readers

\* The positions of Detach past its check of Tree.Engine.
DetachBody == {"det_lock", "det_handler", "det_ondetach", "det_unlock"}

DetachUnattachedNoop ==
    /\ Engine = Nil => \A t \in Threads : pc[t] \notin DetachBody
    /\ \A t \in Threads :
          (pc[t] = "det_check" /\ Engine = Nil /\ pc'[t] # "det_check") =>
              /\ pc'[t] = "idle"
              /\ UNCHANGED <<Root, nodes, Engine, attachedPrefix, handlers, hooks,
                             writer, readers, obs>>

\* C18: a Detach that finds Tree.Engine unset (no Attach has succeeded yet)
\* returns at once: it takes no lock, calls no DetachHandler, invokes no
\* OnDetach, and leaves Root, Engine and everything else as they were.
C18_DetachUnattachedNoop == [][DetachUnattachedNoop]_vars

\* A Detach is at its check of Tree.Engine on a tree whose only Attach so far
\* failed in an OnAttach hook: Engine is unset, a node is attached.
C18_Witness ==
    \E t \in Threads :
        /\ pc[t] = "det_check"
        /\ Engine = Nil
        /\ writer = {}
        /\ \E n \in DOMAIN hooks : hooks[n].att = 1

\* C19: intHandler never faults, whatever the Interest's name (a name without
\* components and a name of one digest component included): a call that was
\* handed an Interest is never ended by a panic.
C19_HandlerNeverFaults ==
    \A t \in Threads : arg[t].op = "intHandler" => pc[t] # "panic"

-----------------------------------------------------------------------------
(* LiveSpec: Spec with the scheduler's and the mutex's fairness             *)

\* The steps a goroutine takes by itself once it is inside a call.
Progress(t) ==
    \/ AttachLock(t) \/ AttachSetPrefix(t) \/ AttachOnAttach(t)
    \/ AttachRegister(t) \/ AttachSetEngine(t) \/ AttachUnlock(t)
    \/ DetachCheck(t) \/ DetachLock(t) \/ DetachHandler(t)
    \/ DetachOnDetach(t) \/ DetachUnlock(t)
    \/ PutLock(t) \/ PutBody(t) \/ PutUnlock(t)
    \/ IntRLock(t) \/ IntBody(t) \/ IntRUnlock(t)

\* A runnable goroutine runs, every hook returns, a goroutine blocked in Lock
\* or RLock obtains the lock if it is free again and again (sync.RWMutex does
\* not starve its callers), and a caller of Tree.RLock calls Tree.RUnlock.
Fairness ==
    \A t \in Threads : SF_vars(Progress(t)) /\ SF_vars(TreeRUnlock(t))

\* The calls made under LiveSpec: a tree of one node, attached at /p, and
\* Interests named /p, which go to that node.
LivePrefixes == {<<CompP>>}
LivePaths == {<<>>}
LiveNames == {<<CompP>>}

LNext ==
    \E t \in Threads :
        \/ \E prefix \in LivePrefixes : AttachCall(t, prefix)
        \/ AttachLock(t)
        \/ AttachSetPrefix(t)
        \/ AttachOnAttach(t)
        \/ AttachRegister(t)
        \/ AttachSetEngine(t)
        \/ AttachUnlock(t)
        \/ DetachCall(t)
        \/ DetachCheck(t)
        \/ DetachLock(t)
        \/ DetachHandler(t)
        \/ DetachOnDetach(t)
        \/ DetachUnlock(t)
        \/ \E path \in LivePaths, kind \in NodeKinds : PutCall(t, path, kind)
        \/ PutLock(t)
        \/ PutBody(t)
        \/ PutUnlock(t)
        \/ \E name \in LiveNames : IntDispatch(t, name)
        \/ IntRLock(t)
        \/ IntBody(t)
        \/ IntRUnlock(t)
        \/ TreeRLock(t)
        \/ TreeRUnlock(t)

LiveSpec == Init /\ [][LNext]_vars /\ Fairness

-----------------------------------------------------------------------------
(* HandlerSpec: intHandler on one Interest at a time, digest names included *)

DigestP == Comp("params-sha256", "d")
DigestI == Comp("implicit-sha256", "e")

\* The names of the Interests: a prefix, a name below it, and possibly one
\* trailing digest component.
HBodies == {<<>>, <<CompA>>, <<CompX>>, <<CompA, CompX>>}
HNames ==
    {p \o n \o d : p \in Prefixes, n \in HBodies, d \in {<<>>, <<DigestP>>, <<DigestI>>}}

\* The patterns nodes are put at.
HPaths ==
    {<<>>, <<Lit(CompA)>>, <<Var("u", "any")>>,
     <<Lit(CompA), Var("u", "any")>>, <<Lit(CompA), Var("v", "generic")>>}

\* The root is bound at a prefix (SetAttachedPrefix, as Attach calls it).
HBind(prefix) ==
    /\ Root # NoNode
    /\ attachedPrefix' = prefix
    /\ last' = [NoCall EXCEPT !.op = "SetAttachedPrefix", !.name = prefix,
                              !.preRoot = Root, !.preNodes = nodes]
    /\ UNCHANGED <<Root, nodes, Engine, handlers, lockVars, procVars, hooks, obs,
                   wireVars>>

\* The engine hands intHandler an Interest whose name is under the prefix the
\* tree is bound at; the call runs to its end (OnInterest on a node, the drop,
\* or the panic).
HIntHandler(name) ==
    /\ Root # NoNode
    /\ IsPrefix(attachedPrefix, name)
    /\ LET r == IntHandlerMatch(Root, nodes, attachedPrefix, name)
       IN last' = [NoCall EXCEPT
                      !.op = "intHandler", !.name = name,
                      !.err = IF r.panic THEN "panic"
                              ELSE IF r.node = NoNode THEN "drop" ELSE Nil,
                      !.node = r.node, !.matching = r.matching,
                      !.preRoot = Root, !.preNodes = nodes]
    /\ UNCHANGED <<treeVars, handlers, lockVars, procVars, hooks, obs, wireVars>>

HNext ==
    \/ \E path \in HPaths, kind \in NodeKinds : TPutNode(path, kind)
    \/ \E prefix \in Prefixes : HBind(prefix)
    \/ \E name \in HNames : HIntHandler(name)

HandlerSpec == TInit /\ [][HNext]_vars

\* The name intHandler is to match on: the Interest's name without a trailing
\* digest component.
WithoutDigest(name) ==
    IF Len(name) > 0 /\ name[Len(name)].typ \in {"params-sha256", "implicit-sha256"}
    THEN SubSeq(name, 1, Len(name) - 1)
    ELSE name

\* Whether some node of the tree is at a pattern that matches the name (below
\* the attached prefix).
SomeNodeMatches(name) ==
    /\ IsPrefix(attachedPrefix, name)
    /\ \E q \in TreePathsOf(Root, nodes) :
          PathMatches(q, SubSeq(name, Len(attachedPrefix) + 1, Len(name)))

\* C14: an Interest whose name, without a trailing digest component, matches
\* no node of the tree is dropped: OnInterest is invoked on no node (so the
\* reply callback, which only OnInterest receives, is never called) and the
\* tree is what it was.
C14_UnmatchedDropped ==
    (last.op = "intHandler" /\ ~SomeNodeMatches(WithoutDigest(last.name))) =>
        /\ last.err = "drop"
        /\ last.node = NoNode
        /\ Root = last.preRoot /\ nodes = last.preNodes

\* An Interest under the attached prefix /p, with a trailing digest, whose
\* name matches no node of a tree that has nodes below the root: dropped.
C14_Witness ==
    /\ last.op = "intHandler"
    /\ last.err = "drop"
    /\ attachedPrefix = <<CompP>>
    /\ Len(nodes) >= 2
    /\ last.name = <<CompP, CompX, DigestP>>

DigestKeys == {"params-sha256", "sha256digest"}

\* C15: for a name N followed by a ParametersSha256Digest (ImplicitSha256Digest)
\* component, intHandler selects the node Tree.Match selects for N, and hands
\* OnInterest that matching with 'params-sha256' ('sha256digest') bound to
\* the digest's value; for a name whose last component is no digest it
\* selects the node Tree.Match selects for the whole name and hands over that
\* matching, with neither key added.
C15_DigestStripped ==
    (last.op = "intHandler" /\ Len(last.name) > 0) =>
        LET name == last.name
            lastc == name[Len(name)]
            front == SubSeq(name, 1, Len(name) - 1)
            whole == TreeMatch(Root, nodes, attachedPrefix, name)
            short == TreeMatch(Root, nodes, attachedPrefix, front)
        IN /\ lastc.typ = "params-sha256" =>
                 /\ last.node = short.node
                 /\ short.node # NoNode =>
                       last.matching = Bind(short.matching, "params-sha256", lastc.val)
           /\ lastc.typ = "implicit-sha256" =>
                 /\ last.node = short.node
                 /\ short.node # NoNode =>
                       last.matching = Bind(short.matching, "sha256digest", lastc.val)
           /\ lastc.typ \notin {"params-sha256", "implicit-sha256"} =>
                 /\ last.node = whole.node
                 /\ last.matching = whole.matching
                 /\ DOMAIN last.matching \cap DigestKeys = {}

\* An Interest /a/<params digest> went to the node at /a although the tree
\* also has a node, below /a, whose pattern matches the whole name; the
\* matching carries the digest's value.
C15_Witness ==
    /\ last.op = "intHandler"
    /\ last.name = <<CompA, DigestP>>
    /\ attachedPrefix = <<>>
    /\ last.node = NodeAt(nodes, Root, <<Lit(CompA)>>)
    /\ NodeAt(nodes, Root, <<Lit(CompA), Var("u", "any")>>) # NoNode
    /\ last.matching = Bind(EmptyMatching, "params-sha256", "d")

=============================================================================
